---- MODULE Spec2Model ----
(***************************************************************************)
(* Model of train_interpreter.py: the start-up check of __main__ that      *)
(* decides which ensemble members still have to be trained, the member     *)
(* loop and the early-stopping training loop of train(), and the label     *)
(* suppression / flattening / filtering of prepare_data().                 *)
(*                                                                         *)
(* Losses are integers: only their order matters to the code (loss.item()  *)
(* is compared with best_loss by <), so a float loss is represented by its *)
(* rank among a few levels plus one level equal to the sentinel.           *)
(***************************************************************************)
EXTENDS Integers, Sequences, FiniteSets, TLC

\* ---------------------------------------------------------------- bounds
\* opts['model_num']: number of ensemble members
ModelNum == 2
\* largest len(train_loader) explored
MaxBatches == 2
\* number of distinct loss levels below the sentinel
NumLosses == 4
\* number of program runs on one experiment directory
MaxRuns == 3
\* len(dataset) in prepare_data
NumImages == 2
\* args['number_class']
number_class == 2
\* pixels of one label map that are not needed to hold one class at the limit
SparePixels == 1

\* ------------------------------------------------------ program constants
InitBestLoss == 10000000
MaxEpochs == 100
WarmupEpoch == 3
BreakLimit == 50
MinCount == 20
Uint8Mod == 256

\* pixels per label map (H*W): room for one class at the limit
NPix == MinCount + SparePixels

VARIABLES
  pc,               \* position in __main__ / train
  files,            \* indices i whose model_<i>.pth exists in exp_dir
  numBatches,       \* len(train_loader)
  start_model_num,  \* opts['start_model_num']
  rangeNext,        \* next value of range(start_model_num, model_num)
  MODEL_NUMBER,
  epoch, batch, iteration,
  break_count, best_loss, stop_sign,
  \* history variables (observations, never read by the program)
  run,              \* number of the current program run
  prevEnd,          \* how the previous run ended
  filesAtStart,     \* files when the current run started
  written,          \* indices saved by the current run, in order
  minSeen,          \* running minimum of the sentinel and the losses of steps with epoch > 3
  sinceImprove,     \* steps with epoch > 3 since the last one below that minimum
  scen, prevLoss, flatCount,   \* tracking of the "decreasing warm-up, then flat" loss sequence
  \* prepare_data
  dpc, ignore_label, row, X, y, retX, retY,
  dataset           \* history: the label maps the dataset has yielded so far

trainVars == <<pc, files, numBatches, start_model_num, rangeNext, MODEL_NUMBER,
               epoch, batch, iteration, break_count, best_loss, stop_sign>>
histVars == <<run, prevEnd, filesAtStart, written, minSeen, sinceImprove,
              scen, prevLoss, flatCount>>
dataVars == <<dpc, ignore_label, dataset, row, X, y, retX, retY>>
vars == <<trainVars, histVars, dataVars>>

Members == 0 .. (ModelNum - 1)
Losses == (1 .. NumLosses) \cup {InitBestLoss}
RunLosses == {1}

\* ------------------------------------------------------------ __main__
\* variant: every run starts again at member 0
StartIndex_zero(F) == 0
\* sum(pretrained): the number of existing model files, not the first gap
StartIndex(F) == Cardinality({i \in Members : i \in F})

AllPretrained(F) == \A i \in Members : i \in F

Main ==
  /\ pc = "main"
  /\ IF ~AllPretrained(files)
     THEN /\ start_model_num' = StartIndex(files)
          /\ rangeNext' = StartIndex(files)
          /\ pc' = "member"
     ELSE /\ pc' = "loaded"
          /\ UNCHANGED <<start_model_num, rangeNext>>
  /\ UNCHANGED <<files, numBatches, MODEL_NUMBER, epoch, batch, iteration,
                 break_count, best_loss, stop_sign>>
  /\ UNCHANGED histVars
  /\ UNCHANGED dataVars

\* ------------------------------------------------------------ train
\* variant: MODEL_NUMBER itself is the loop counter, so the increment in the
\* body adds to the loop's own
LoopValue_counter == IF rangeNext = start_model_num THEN rangeNext ELSE MODEL_NUMBER + 1
\* the value the for statement binds to MODEL_NUMBER: the iterator's, whatever
\* the body assigned to MODEL_NUMBER
LoopValue == rangeNext

BeginMember ==
  /\ pc = "member"
  /\ LoopValue < ModelNum
  /\ MODEL_NUMBER' = LoopValue
  /\ rangeNext' = LoopValue + 1
  /\ iteration' = 0
  /\ break_count' = 0
  /\ best_loss' = InitBestLoss
  /\ stop_sign' = 0
  /\ epoch' = 0
  /\ batch' = 0
  /\ pc' = "train"
  /\ minSeen' = InitBestLoss
  /\ sinceImprove' = 0
  /\ scen' = "warm"
  /\ prevLoss' = 0
  /\ flatCount' = 0
  /\ UNCHANGED <<files, numBatches, start_model_num>>
  /\ UNCHANGED <<run, prevEnd, filesAtStart, written>>
  /\ UNCHANGED dataVars

TrainReturn ==
  /\ pc = "member"
  /\ ~(LoopValue < ModelNum)
  /\ pc' = "loaded"
  /\ UNCHANGED <<files, numBatches, start_model_num, rangeNext, MODEL_NUMBER,
                 epoch, batch, iteration, break_count, best_loss, stop_sign>>
  /\ UNCHANGED histVars
  /\ UNCHANGED dataVars

\* variant: the stopping checks start one epoch early
PastWarmup_early(e) == e >= WarmupEpoch
PastWarmup(e) == e > WarmupEpoch

\* variant: an equal loss counts as an improvement
Improved_le(L, best) == L <= best
Improved(L, best) == L < best

\* variant: one more step without improvement is tolerated
ShouldStop_late(bc) == bc > BreakLimit + 1
ShouldStop(bc) == bc > BreakLimit

\* variant: the inner break is missing, the epoch's batches are finished first
NextPos_nobreak(brk, ss, e, b) ==
  IF b + 1 < numBatches THEN [pc |-> "train", epoch |-> e, batch |-> b + 1]
  ELSE IF ss = 1 THEN [pc |-> "save", epoch |-> e, batch |-> b]
  ELSE IF e + 1 < MaxEpochs THEN [pc |-> "train", epoch |-> e + 1, batch |-> 0]
  ELSE [pc |-> "save", epoch |-> e, batch |-> b]
\* where control goes after one batch: brk is the inner break, ss the stop_sign
NextPos(brk, ss, e, b) ==
  IF brk THEN [pc |-> "save", epoch |-> e, batch |-> b]
  ELSE IF b + 1 < numBatches THEN [pc |-> "train", epoch |-> e, batch |-> b + 1]
  ELSE IF ss = 1 THEN [pc |-> "save", epoch |-> e, batch |-> b]
  ELSE IF e + 1 < MaxEpochs THEN [pc |-> "train", epoch |-> e + 1, batch |-> 0]
  ELSE [pc |-> "save", epoch |-> e, batch |-> b]

\* history of the loss sequence, for the scenario "strictly decreasing during
\* the warm-up epochs, then constant from the first step with epoch > 3"
ScenAfter(L) ==
  IF epoch > WarmupEpoch
  THEN IF scen = "warm" THEN [scen |-> "flat", prevLoss |-> L, flatCount |-> 1]
       ELSE IF scen = "flat" /\ L = prevLoss
            THEN [scen |-> "flat", prevLoss |-> L, flatCount |-> flatCount + 1]
       ELSE [scen |-> "off", prevLoss |-> 0, flatCount |-> 0]
  ELSE IF scen = "warm" /\ (prevLoss = 0 \/ L < prevLoss)
       THEN [scen |-> "warm", prevLoss |-> L, flatCount |-> 0]
       ELSE [scen |-> "off", prevLoss |-> 0, flatCount |-> 0]

\* one iteration of "for X_batch, y_batch in train_loader" with loss.item() = L,
\* followed by the loop exits it causes
TrainStep(L) ==
  /\ pc = "train"
  /\ batch < numBatches
  /\ iteration' = iteration + 1
  /\ LET active == PastWarmup(epoch)
         better == Improved(L, best_loss)
         bl == IF active /\ better THEN L ELSE best_loss
         bc == IF active THEN (IF better THEN 0 ELSE break_count + 1) ELSE break_count
         brk == active /\ ShouldStop(bc)
         ss == IF brk THEN 1 ELSE stop_sign
         pos == NextPos(brk, ss, epoch, batch)
     IN /\ best_loss' = bl
        /\ break_count' = bc
        /\ stop_sign' = ss
        /\ pc' = pos.pc
        /\ epoch' = pos.epoch
        /\ batch' = pos.batch
  /\ IF epoch > WarmupEpoch
     THEN /\ minSeen' = (IF L < minSeen THEN L ELSE minSeen)
          /\ sinceImprove' = (IF L < minSeen THEN 0 ELSE sinceImprove + 1)
     ELSE UNCHANGED <<minSeen, sinceImprove>>
  /\ LET s == ScenAfter(L)
     IN /\ scen' = s.scen
        /\ prevLoss' = s.prevLoss
        /\ flatCount' = s.flatCount
  /\ UNCHANGED <<files, numBatches, start_model_num, rangeNext, MODEL_NUMBER>>
  /\ UNCHANGED <<run, prevEnd, filesAtStart, written>>
  /\ UNCHANGED dataVars

Step == \E L \in Losses : TrainStep(L)
StepRun == \E L \in RunLosses : TrainStep(L)

\* an epoch over an empty train_loader (fewer rows than batch_size, drop_last)
EmptyEpoch ==
  /\ pc = "train"
  /\ numBatches = 0
  /\ IF stop_sign = 1 \/ ~(epoch + 1 < MaxEpochs)
     THEN pc' = "save" /\ UNCHANGED epoch
     ELSE pc' = "train" /\ epoch' = epoch + 1
  /\ UNCHANGED <<files, numBatches, start_model_num, rangeNext, MODEL_NUMBER,
                 batch, iteration, break_count, best_loss, stop_sign>>
  /\ UNCHANGED histVars
  /\ UNCHANGED dataVars

\* model_path is built from MODEL_NUMBER before the increment
Save ==
  /\ pc = "save"
  /\ files' = files \cup {MODEL_NUMBER}
  /\ written' = Append(written, MODEL_NUMBER)
  /\ MODEL_NUMBER' = MODEL_NUMBER + 1
  /\ pc' = "member"
  /\ UNCHANGED <<numBatches, start_model_num, rangeNext, epoch, batch, iteration,
                 break_count, best_loss, stop_sign>>
  /\ UNCHANGED <<run, prevEnd, filesAtStart, minSeen, sinceImprove,
                 scen, prevLoss, flatCount>>
  /\ UNCHANGED dataVars

\* an exception anywhere in train() before torch.save: nothing catches it
Crash ==
  /\ pc \in {"member", "train", "save"}
  /\ pc' = "aborted"
  /\ UNCHANGED <<files, numBatches, start_model_num, rangeNext, MODEL_NUMBER,
                 epoch, batch, iteration, break_count, best_loss, stop_sign>>
  /\ UNCHANGED histVars
  /\ UNCHANGED dataVars

\* the program is started again on the same experiment directory
Restart ==
  /\ pc \in {"loaded", "aborted"}
  /\ run < MaxRuns
  /\ run' = run + 1
  /\ prevEnd' = (IF pc = "loaded" THEN "finished" ELSE "aborted")
  /\ filesAtStart' = files
  /\ written' = <<>>
  /\ pc' = "main"
  /\ start_model_num' = 0
  /\ rangeNext' = 0
  /\ MODEL_NUMBER' = 0
  /\ epoch' = 0
  /\ batch' = 0
  /\ iteration' = 0
  /\ break_count' = 0
  /\ best_loss' = InitBestLoss
  /\ stop_sign' = 0
  /\ minSeen' = InitBestLoss
  /\ sinceImprove' = 0
  /\ scen' = "warm"
  /\ prevLoss' = 0
  /\ flatCount' = 0
  /\ UNCHANGED <<files, numBatches>>
  /\ UNCHANGED dataVars

\* ------------------------------------------------------------ initial states
DataIdle ==
  /\ dpc = "idle"
  /\ ignore_label = 255
  /\ dataset = <<>>
  /\ row = 0
  /\ X = <<>>
  /\ y = <<>>
  /\ retX = <<>>
  /\ retY = <<>>

ProcessStart(F) ==
  /\ pc = "main"
  /\ files = F
  /\ start_model_num = 0
  /\ rangeNext = 0
  /\ MODEL_NUMBER = 0
  /\ epoch = 0
  /\ batch = 0
  /\ iteration = 0
  /\ break_count = 0
  /\ best_loss = InitBestLoss
  /\ stop_sign = 0
  /\ run = 1
  /\ prevEnd = "none"
  /\ filesAtStart = F
  /\ written = <<>>
  /\ minSeen = InitBestLoss
  /\ sinceImprove = 0
  /\ scen = "warm"
  /\ prevLoss = 0
  /\ flatCount = 0

\* a directory holding model_0 .. model_<k-1>
InitTrain ==
  /\ \E k \in 0 .. ModelNum : ProcessStart(0 .. (k - 1))
  /\ numBatches \in 0 .. MaxBatches
  /\ DataIdle

\* a directory holding any of the model files
InitRuns ==
  /\ \E F \in SUBSET Members : ProcessStart(F)
  /\ numBatches \in 0 .. MaxBatches
  /\ DataIdle

\* an empty directory
InitCrash ==
  /\ ProcessStart({})
  /\ numBatches \in 0 .. MaxBatches
  /\ DataIdle

\* ------------------------------------------------------------ prepare_data
\* y is a uint8 tensor: a stored label keeps its low eight bits
ToUint8(v) == v % Uint8Mod

\* (label == target).sum()
Count(m, c) == Cardinality({p \in 1 .. Len(m) : m[p] = c})

\* variant: a class with exactly 20 pixels is suppressed too
IsSparse_le(c) == 0 < c /\ c <= MinCount
IsSparse(c) == 0 < c /\ c < MinCount

\* one iteration of "for target in range(args['number_class'])"
SuppressTarget(m, target) ==
  IF target = ignore_label THEN m
  ELSE IF IsSparse(Count(m, target))
       THEN [p \in 1 .. Len(m) |-> IF m[p] = target THEN ToUint8(ignore_label) ELSE m[p]]
       ELSE m

RECURSIVE SuppressFrom(_, _)
SuppressFrom(m, target) ==
  IF target >= number_class THEN m
  ELSE SuppressFrom(SuppressTarget(m, target), target + 1)

Suppress(m) == SuppressFrom(m, 0)

\* collect_features(args, feature_extractor(img)): one feature vector per pixel,
\* represented by a number that identifies the image and the pixel
Features(r) == [p \in 1 .. NPix |-> r * NPix + p]

\* the body of "for row, (img, label) in enumerate(dataset)"; img_label is the
\* label map the dataset yields for this row
ProcessImage(img_label) ==
  /\ dpc = "loop"
  /\ row < NumImages
  /\ dataset' = Append(dataset, img_label)
  /\ \E label \in {Suppress(img_label)} :
        /\ X' = [X EXCEPT ![row + 1] = Features(row)]
        /\ y' = [y EXCEPT ![row + 1] = [p \in 1 .. Len(label) |-> ToUint8(label[p])]]
  /\ row' = row + 1
  /\ UNCHANGED <<dpc, ignore_label, retX, retY>>
  /\ UNCHANGED trainVars
  /\ UNCHANGED histVars

\* permute/reshape of X and y.flatten(): rows ordered by image, then by pixel
RECURSIVE Flatten(_)
Flatten(ss) == IF ss = <<>> THEN <<>> ELSE Head(ss) \o Flatten(Tail(ss))

\* variant: no row is filtered out
KeepMask_all(yf) == [i \in 1 .. Len(yf) |-> TRUE]
\* y != args['ignore_label']
KeepMask(yf) == [i \in 1 .. Len(yf) |-> yf[i] # ignore_label]

\* boolean-mask indexing t[mask]
RECURSIVE MaskSelect(_, _)
MaskSelect(t, mask) ==
  IF t = <<>> THEN <<>>
  ELSE (IF Head(mask) THEN <<Head(t)>> ELSE <<>>) \o MaskSelect(Tail(t), Tail(mask))

Finish ==
  /\ dpc = "loop"
  /\ row = NumImages
  /\ \E Xf \in {Flatten(X)}, yf \in {Flatten(y)} :
        /\ retX' = MaskSelect(Xf, KeepMask(yf))
        /\ retY' = MaskSelect(yf, KeepMask(yf))
  /\ dpc' = "returned"
  /\ UNCHANGED <<ignore_label, dataset, row, X, y>>
  /\ UNCHANGED trainVars
  /\ UNCHANGED histVars

\* label maps of the data model: values in [0, number_class) or ignore_label;
\* class c fills a run of cnt[c] pixels, the rest is ignore_label
Counts == {0, 1, MinCount - 1, MinCount}

RECURSIVE Total(_, _)
Total(cnt, c) == IF c >= number_class THEN 0 ELSE cnt[c] + Total(cnt, c + 1)

RECURSIVE Runs(_, _)
Runs(cnt, c) ==
  IF c >= number_class THEN <<>>
  ELSE [p \in 1 .. cnt[c] |-> c] \o Runs(cnt, c + 1)

LabelMaps(ign) ==
  { Runs(cnt, 0) \o [p \in 1 .. (NPix - Total(cnt, 0)) |-> ign] :
      cnt \in { f \in [0 .. (number_class - 1) -> Counts] : Total(f, 0) <= NPix } }

IgnoreLabels == {number_class - 1, 255}

DatasetLabels == [ign \in IgnoreLabels |-> LabelMaps(ign)]

TrainIdle ==
  /\ pc = "prepare"
  /\ files = {}
  /\ numBatches = 0
  /\ start_model_num = 0
  /\ rangeNext = 0
  /\ MODEL_NUMBER = 0
  /\ epoch = 0
  /\ batch = 0
  /\ iteration = 0
  /\ break_count = 0
  /\ best_loss = InitBestLoss
  /\ stop_sign = 0
  /\ run = 1
  /\ prevEnd = "none"
  /\ filesAtStart = {}
  /\ written = <<>>
  /\ minSeen = InitBestLoss
  /\ sinceImprove = 0
  /\ scen = "warm"
  /\ prevLoss = 0
  /\ flatCount = 0

InitData ==
  /\ TrainIdle
  /\ dpc = "loop"
  /\ ignore_label \in IgnoreLabels
  /\ dataset = <<>>
  /\ row = 0
  /\ X = [r \in 1 .. NumImages |-> [p \in 1 .. NPix |-> 0]]
  /\ y = [r \in 1 .. NumImages |-> [p \in 1 .. NPix |-> 0]]
  /\ retX = <<>>
  /\ retY = <<>>

Load == \E img_label \in DatasetLabels[ignore_label] : ProcessImage(img_label)

NextData == Load \/ Finish

SpecData == InitData /\ [][NextData]_vars

NextTrain == Main \/ BeginMember \/ Step \/ EmptyEpoch \/ Save \/ TrainReturn
NextRuns == Main \/ BeginMember \/ StepRun \/ EmptyEpoch \/ Save \/ TrainReturn
              \/ Crash \/ Restart

SpecTrain == InitTrain /\ [][NextTrain]_vars
SpecRuns == InitRuns /\ [][NextRuns]_vars
SpecCrash == InitCrash /\ [][NextRuns]_vars
\* ------------------------------------------------------------ properties

\* C1, as stated: when the losses strictly decrease during the warm-up epochs
\* and then stay at one value for 51 consecutive steps from the first step with
\* epoch > 3, training has stopped (stop_sign set) by the 51st flat step.
C1_StopsWithin51 ==
  (scen = "flat" /\ flatCount >= 51) => stop_sign = 1

\* C1, amended: with such a flat run of 52 steps, stop_sign is set within the
\* run, with break_count above 50 (at the 52nd flat step when the flat loss is
\* below the sentinel 10000000, because the first flat step only records
\* best_loss; at the 51st otherwise), and no training step follows the run.
C1_StopsWithin52 ==
  /\ (scen = "flat" /\ flatCount >= 52) =>
        (stop_sign = 1 /\ break_count > BreakLimit /\ pc # "train")
  /\ (scen = "flat" /\ stop_sign = 1) =>
        flatCount = (IF prevLoss < InitBestLoss THEN 52 ELSE 51)
  /\ flatCount <= 52

C1_Witness ==
  scen = "flat" /\ flatCount = 52 /\ stop_sign = 1 /\ pc = "save"

\* C7: after any number of steps taken in epochs 0..3 (at most four epochs of
\* batches), best_loss, break_count and stop_sign still have their initial
\* values, and a member is never saved before four full epochs of batches.
C7_Warmup ==
  /\ (pc \in {"train", "save"} /\ iteration <= (WarmupEpoch + 1) * numBatches) =>
        (best_loss = InitBestLoss /\ break_count = 0 /\ stop_sign = 0)
  /\ pc = "save" => iteration >= (WarmupEpoch + 1) * numBatches

C7_Witness ==
  /\ pc = "train"
  /\ numBatches = MaxBatches
  /\ iteration = (WarmupEpoch + 1) * numBatches
  /\ scen = "off"

\* C8: stop_sign is set exactly when break_count exceeds 50; the step that sets
\* it leaves the batch loop and the epoch loop at once, so that no training
\* step follows and the next event of the member is the saving of its file.
C8_StopState ==
  /\ (stop_sign = 1) <=> (break_count > BreakLimit)
  /\ break_count <= BreakLimit + 1
  /\ stop_sign = 1 =>
        \/ pc = "save"
        \/ /\ pc \in {"member", "loaded"}
           /\ written # <<>>
           /\ written[Len(written)] = MODEL_NUMBER - 1

\* C8: the state part above, and step by step: the step that sets stop_sign
\* is the one that takes break_count to 51 and goes to the saving; once
\* stop_sign is set no step is counted for the member; the saving comes next.
C8_StopPropagation ==
  /\ []C8_StopState
  /\ [][(stop_sign = 0 /\ stop_sign' = 1) =>
          (pc' = "save" /\ iteration' = iteration + 1 /\ break_count' = BreakLimit + 1)]_vars
  /\ [][stop_sign = 1 => iteration' = iteration \/ (pc = "member" /\ iteration' = 0)]_vars
  /\ [][(stop_sign = 1 /\ pc = "save") =>
          (files' = files \cup {MODEL_NUMBER} /\ pc' = "member")]_vars

C8_Witness ==
  /\ stop_sign = 1
  /\ pc = "save"
  /\ batch + 1 < numBatches
  /\ epoch + 1 < MaxEpochs

\* C9: in one call of train the files model_<start_model_num>, ... are written
\* one per member in increasing order without gap or repetition, each after
\* its member's training has ended (stop_sign set or 100 epochs done) and before
\* the next member's first step, and every member starts from best_loss =
\* 10000000, break_count = 0, stop_sign = 0.
C9_Sequential ==
  /\ written = [k \in 1 .. Len(written) |-> start_model_num + k - 1]
  /\ files = filesAtStart \cup {written[k] : k \in 1 .. Len(written)}
  /\ pc \in {"train", "save"} => MODEL_NUMBER = start_model_num + Len(written)
  /\ pc = "member" => rangeNext = start_model_num + Len(written)
  /\ pc = "save" =>
        (stop_sign = 1 \/ (epoch = MaxEpochs - 1 /\ batch + 1 >= numBatches))
  /\ (pc = "loaded" /\ ~AllPretrained(filesAtStart)) =>
        Len(written) = ModelNum - start_model_num
  /\ (pc = "train" /\ iteration = 0) =>
        (best_loss = InitBestLoss /\ break_count = 0 /\ stop_sign = 0)

C9_Witness ==
  /\ pc = "train"
  /\ iteration = 0
  /\ Len(written) = 1
  /\ MODEL_NUMBER = start_model_num + 1

\* C10: during a member's training best_loss is the minimum of 10000000 and the
\* losses of the steps taken with epoch > 3, break_count is the number of such
\* steps since the last one strictly below the minimum so far (also across
\* epoch boundaries), and break_count is at most 51.
C10_Counters ==
  pc \in {"train", "save"} =>
    /\ best_loss = minSeen
    /\ break_count = sinceImprove
    /\ break_count <= BreakLimit + 1

C10_Witness ==
  /\ pc = "train"
  /\ epoch > WarmupEpoch + 1
  /\ batch = 0
  /\ break_count > numBatches
  /\ numBatches > 0
  /\ best_loss < InitBestLoss

\* the increasing sequence of the elements of S
SortedSeq(S) ==
  CHOOSE q \in [1 .. Cardinality(S) -> S] :
    \A i, j \in 1 .. Cardinality(S) : i < j => q[i] < q[j]

\* C2: whatever model files exist at start-up, the members a run trains and
\* saves are exactly those whose file is absent, in increasing order, and a
\* member whose file exists is neither trained nor written.
C2_Resume ==
  /\ pc \in {"train", "save"} => MODEL_NUMBER \notin filesAtStart
  /\ pc = "loaded" => written = SortedSeq(Members \ filesAtStart)

\* C3: a run that follows a run whose training phase finished trains no member
\* and writes no file.
C3_Idempotent ==
  (run >= 2 /\ prevEnd = "finished") =>
     (pc \notin {"train", "save"} /\ written = <<>>)

FirstMissing(F) ==
  IF AllPretrained(F) THEN ModelNum
  ELSE CHOOSE i \in Members \ F : \A j \in Members \ F : i <= j

\* C4: from an empty directory, with runs that may abort before a member's file
\* is written, every run starts at the first member without a file, no member
\* with a file is trained or written again, and a run whose training phase
\* finishes leaves all model files present.
C4_CrashRestart ==
  /\ pc \in {"member", "train", "save"} => start_model_num = FirstMissing(filesAtStart)
  /\ pc \in {"train", "save"} => MODEL_NUMBER \notin files
  /\ filesAtStart \subseteq files
  /\ pc = "loaded" => files = Members

C4_Witness ==
  /\ pc = "loaded"
  /\ prevEnd = "aborted"
  /\ filesAtStart # {}
  /\ written # <<>>

LabelDomain == (0 .. (number_class - 1)) \cup {ignore_label}

\* C5: in the label map stored for a processed image no class other than
\* ignore_label has between 1 and 19 pixels, and a class that had 0 or at least
\* 20 pixels keeps exactly its pixels.
C5_SparseSuppressed ==
  \A r \in 1 .. row : \A c \in LabelDomain :
    /\ c # ignore_label => ~(0 < Count(y[r], c) /\ Count(y[r], c) < MinCount)
    /\ (c # ignore_label /\ (Count(dataset[r], c) = 0 \/ Count(dataset[r], c) >= MinCount)) =>
          \A p \in 1 .. NPix : (dataset[r][p] = c) <=> (y[r][p] = c)
    /\ c = ignore_label =>
          \A p \in 1 .. NPix : dataset[r][p] = c => y[r][p] = c

C5_Witness ==
  /\ row = NumImages
  /\ \E r \in 1 .. row : \E c \in LabelDomain \ {ignore_label} :
        Count(dataset[r], c) = MinCount - 1 /\ Count(y[r], c) = 0
  /\ \E r \in 1 .. row : \E c \in LabelDomain \ {ignore_label} :
        Count(dataset[r], c) = MinCount /\ Count(y[r], c) = MinCount

RECURSIVE KeptPixels(_)
KeptPixels(r) ==
  IF r = 0 THEN 0
  ELSE Cardinality({p \in 1 .. NPix : y[r][p] # ignore_label}) + KeptPixels(r - 1)

\* C6: the returned X and y have the same number of rows, which is the number
\* of pixels of all images whose stored label is not ignore_label, and no
\* returned label is ignore_label.
C6_FeatureTable ==
  dpc = "returned" =>
    /\ Len(retX) = Len(retY)
    /\ Len(retY) = KeptPixels(NumImages)
    /\ \A i \in 1 .. Len(retY) : retY[i] # ignore_label

C6_Witness ==
  /\ dpc = "returned"
  /\ Len(retY) > 0
  /\ Len(retY) < NumImages * NPix
  /\ \E r \in 1 .. NumImages : y[r] # dataset[r]
====
